---- MODULE Spec2Model ----
(***************************************************************************)
(* K-Factor Calculator for sheet metal bending (src/main.py).              *)
(*                                                                         *)
(* The program is a Streamlit script: every interaction with a widget      *)
(* re-executes the whole script on the widgets' current values; the only   *)
(* state that survives a run is the widgets' values and the st.cache_data  *)
(* cache of calculate_k_factor.                                            *)
(*                                                                         *)
(* Numbers.  The script computes in IEEE double precision.  TLC has        *)
(* 32-bit integers only, so a float is modelled as a decimal floating      *)
(* point number <<m, e>> of value m * 10^e with an 8-digit mantissa;       *)
(* every operation rounds its result to 8 digits, as the hardware rounds   *)
(* every double operation to 53 bits.  Literals of the source are rounded  *)
(* to 8 significant digits as Python rounds them to the nearest double.    *)
(* Logarithm, exponential, sine and cosine are evaluated by their series   *)
(* in fixed point with 7 decimals.  The exponent e is not bounded: the     *)
(* overflow of a double beyond 1.8e308 (an infinite quotient, Python's     *)
(* OverflowError from the power operator for a ratio from about 1e292 on)  *)
(* is outside the model, whose entries are of moderate size.               *)
(***************************************************************************)
EXTENDS Integers, Sequences, FiniteSets, TLC

(***************************************************************************)
(* State                                                                   *)
(***************************************************************************)
VARIABLES
  r,                \* Inner Bend Radius widget
  s,                \* Sheet Thickness widget
  show_advanced,    \* "Show Bend Calculations" checkbox
  bend_angle,       \* Bend Angle widget
  multiple_bends,   \* "Multiple Bends" checkbox
  num_bends,        \* Number of Bends widget (an int)
  generate_report,  \* whether this run was started by the Generate Report button
  cache,            \* st.cache_data's entries for calculate_k_factor: ratio -> value
  table_data,       \* the module-level reference table
  run,              \* what the last run of the script computed and displayed
  arg_x, arg_y,     \* two ratios at which the functions are evaluated on their own
  k_x, k_y,         \* calculate_k_factor at arg_x and at arg_y
  closest           \* the closest-entry scan's result for arg_x

vars == << r, s, show_advanced, bend_angle, multiple_bends, num_bends,
           generate_report, cache, table_data, run, arg_x, arg_y, k_x, k_y, closest >>

widgets == << r, s, show_advanced, bend_angle, multiple_bends, num_bends >>

functions == << arg_x, arg_y, k_x, k_y, closest >>

(***************************************************************************)
(* Integer helpers                                                         *)
(***************************************************************************)
Abs(n) == IF n < 0 THEN -n ELSE n

Sgn(n) == IF n < 0 THEN -1 ELSE IF n > 0 THEN 1 ELSE 0

\* 10^n for 0 <= n <= 9.
Pow10(n) ==
  <<1, 10, 100, 1000, 10000, 100000, 1000000, 10000000, 100000000, 1000000000>>[n + 1]

\* Quotient and remainder of u * v by w, for 0 <= u, 0 <= v < w <= 10^8, by
\* decimal long multiplication: no intermediate value exceeds 10 * w.
RECURSIVE MulDivQR(_, _, _)
MulDivQR(u, v, w) ==
  IF u = 0 THEN <<0, 0>>
  ELSE LET h == MulDivQR(u \div 10, v, w)
           t == 10 * h[2]
           p == (t % w) + (u % 10) * v
       IN  <<10 * h[1] + (t \div w) + (p \div w), p % w>>

\* A quotient rounded to nearest (halves up) by its remainder.
RoundQR(qr, w) == qr[1] + (IF 2 * qr[2] >= w THEN 1 ELSE 0)

\* u * v / w rounded to nearest, for u, v >= 0, 0 < w <= 10^8 and v < 11 * w.
MulDiv(u, v, w) == u * (v \div w) + RoundQR(MulDivQR(u, v % w, w), w)

\* n / 10^k rounded to nearest (halves away from zero), 0 <= k <= 9.
RoundDiv10(n, k) == Sgn(n) * ((Abs(n) + (Pow10(k) \div 2)) \div Pow10(k))

(***************************************************************************)
(* Decimal floating point: <<m, e>> is m * 10^e; normal form has m = 0 and *)
(* e = 0, or 10^7 <= |m| < 10^8.                                           *)
(***************************************************************************)
Digits == 8
MantMin == Pow10(Digits - 1)
MantMax == Pow10(Digits)

Zero == <<0, 0>>

\* The float nearest to m * 10^e.
RECURSIVE Norm(_, _)
Norm(m, e) ==
  IF m = 0 THEN Zero
  ELSE IF Abs(m) >= MantMax THEN Norm(RoundDiv10(m, 1), e + 1)
  ELSE IF Abs(m) < MantMin THEN Norm(m * 10, e - 1)
  ELSE <<m, e>>

\* A decimal literal: n * 10^e, e.g. Dec(25, -1) is 2.5.
Dec(n, e) == Norm(n, e)

FNeg(u) == <<-u[1], u[2]>>

FAbs(u) == <<Abs(u[1]), u[2]>>

\* u * v: the product of the mantissas to 9 digits, then rounded.
FMul(u, v) ==
  IF u[1] = 0 \/ v[1] = 0 THEN Zero
  ELSE Norm(Sgn(u[1]) * Sgn(v[1]) * MulDiv(Abs(u[1]), Abs(v[1]), MantMin),
            u[2] + v[2] + Digits - 1)

\* u / v for v # 0: the quotient of the mantissas to 9 digits, then rounded.
FDiv(u, v) ==
  IF u[1] = 0 THEN Zero
  ELSE Norm(Sgn(u[1]) * Sgn(v[1]) * MulDiv(Abs(u[1]), MantMax, Abs(v[1])),
            u[2] - v[2] - Digits)

\* u + v for non-zero u and v, u of the larger (or equal) exponent, k the
\* difference of the exponents.  One decade apart the sum is formed exactly
\* on v's scale, so that a difference of nearly equal numbers is exact (the
\* guard digit); further apart v is rounded to u's scale.
AddAligned(u, v, k) ==
  IF k > Digits THEN u
  ELSE Norm(IF k = 1 THEN 10 * u[1] + v[1] ELSE u[1] + RoundDiv10(v[1], k),
            IF k = 1 THEN v[2] ELSE u[2])

FAdd(u, v) ==
  IF u[1] = 0 THEN v
  ELSE IF v[1] = 0 THEN u
  ELSE AddAligned(IF u[2] >= v[2] THEN u ELSE v, IF u[2] >= v[2] THEN v ELSE u,
                  Abs(u[2] - v[2]))

FSub(u, v) == FAdd(u, FNeg(v))

\* u < v
FLt(u, v) ==
  IF Sgn(u[1]) # Sgn(v[1]) THEN Sgn(u[1]) < Sgn(v[1])
  ELSE IF u[1] = 0 THEN FALSE
  ELSE IF u[2] # v[2] THEN (IF u[1] > 0 THEN u[2] < v[2] ELSE u[2] > v[2])
  ELSE u[1] < v[1]

FLe(u, v) == ~FLt(v, u)

(***************************************************************************)
(* Elementary functions, by their series, in fixed point with 7 decimals:  *)
(* the integer n stands for n / 10^7.                                      *)
(***************************************************************************)
One == Pow10(Digits - 1)

\* ln 2, ln 10 and pi, to 7 decimals.
Ln2 == 6931472
Ln10 == 23025851
Pi == 31415927

\* The fixed-point value of a float of moderate size.
Fix(u) ==
  IF u[2] + Digits - 1 >= 0 THEN u[1] * Pow10(u[2] + Digits - 1)
  ELSE IF 1 - Digits - u[2] > Digits THEN 0
  ELSE RoundDiv10(u[1], 1 - Digits - u[2])

\* sum of t^(2i+1) / (2i+1) from term number i on; pw = t^(2i+1), t2 = t^2.
RECURSIVE AtanhSeries(_, _, _)
AtanhSeries(pw, t2, i) ==
  IF pw = 0 THEN 0
  ELSE RoundDiv10((10 * pw) \div (2 * i + 1), 1)
       + AtanhSeries(MulDiv(pw, t2, One), t2, i + 1)

Atanh(t) == AtanhSeries(t, MulDiv(t, t, One), 0)

\* ln w for 1 <= w < 2 (w in fixed point): 2 * atanh((w - 1) / (w + 1)).
LnUnit(w) == 2 * Atanh(MulDiv(w - One, One, w + One))

\* ln w for 1 <= w < 10: halve w down to [1, 2), one ln 2 per halving.
RECURSIVE LnDecade(_)
LnDecade(w) ==
  IF w >= 2 * One THEN Ln2 + LnDecade((w \div 2) + (w % 2)) ELSE LnUnit(w)

\* sum of h^i / i! from term number i on; term = h^i / i!.
RECURSIVE ExpSeries(_, _, _)
ExpSeries(term, h, i) ==
  IF term = 0 THEN 0
  ELSE term + ExpSeries(RoundDiv10((10 * MulDiv(term, h, One)) \div (i + 1), 1), h, i + 1)

\* exp f for 0 <= f < ln 10, a value in [1, 10): split off the ln 2's.
ExpDecade(f) == <<1, 2, 4, 8>>[(f \div Ln2) + 1] * ExpSeries(One, f % Ln2, 0)

\* 10^(tot) for a decimal logarithm tot in fixed point: its integer part is
\* the decade and 10^(its fraction) the mantissa.
Exp10(tot) ==
  Norm(ExpDecade(MulDiv(tot % One, Ln10, One)), (tot \div One) - (Digits - 1))

\* u ** v for floats u >= 0 and 0 < v < 10, as the C library computes pow:
\* exp(v * ln u).  With u = w * 10^E and 1 <= w < 10 the decimal logarithm
\* of the result is v * (E + log10 w).  0.0 ** v is 0.0.
FPow(u, v) ==
  IF u[1] = 0 THEN Zero
  ELSE Exp10(Fix(v) * (u[2] + Digits - 1)
             + MulDiv(MulDiv(LnDecade(Abs(u[1])), One, Ln10), Fix(v), One))

\* sum of (-1)^j * h^(2j+1) / (2j+1)! from term number i on; term = h^(2i+1)/(2i+1)!.
RECURSIVE SinSeries(_, _, _)
SinSeries(term, h2, i) ==
  IF term = 0 THEN 0
  ELSE term - SinSeries(MulDiv(term, h2, One) \div ((2 * i + 2) * (2 * i + 3)), h2, i + 1)

\* sum of (-1)^j * h^(2j) / (2j)! from term number i on; term = h^(2i)/(2i)!.
RECURSIVE CosSeries(_, _, _)
CosSeries(term, h2, i) ==
  IF term = 0 THEN 0
  ELSE term - CosSeries(MulDiv(term, h2, One) \div ((2 * i + 1) * (2 * i + 2)), h2, i + 1)

\* sine over cosine, both in fixed point.  At the float nearest pi / 2 the
\* cosine is below the last place: numpy returns the reciprocal of the
\* argument's representation error (1.633e16 in double precision), a finite
\* number; here the cosine is taken as one unit in the last place.
SinOverCos(sn, cs) ==
  FDiv(Dec(sn, 1 - Digits), Dec(IF cs <= 0 THEN 1 ELSE cs, 1 - Digits))

TanFix(h, h2) == SinOverCos(SinSeries(h, h2, 0), CosSeries(One, h2, 0))

TanSquared(h) == TanFix(h, MulDiv(h, h, One))

\* tan u for a float 0 <= u <= pi / 2 (half of a bend angle of at most 180
\* degrees).
FTan(u) == TanSquared(Fix(u))

\* f"{u:.nf}": the float rounded to n decimals.
Fmt(u, n) ==
  IF -n - u[2] <= 0 THEN u
  ELSE IF -n - u[2] > Digits THEN Zero
  ELSE Norm(RoundDiv10(u[1], -n - u[2]), -n)

(***************************************************************************)
(* Python values: None (also standing for a name that is not bound), and   *)
(* Some(v) for an optional record.  A float is its own <<m, e>>.           *)
(***************************************************************************)
None == <<>>

Some(v) == <<v>>

(***************************************************************************)
(* The functions and the data of src/main.py                               *)
(***************************************************************************)
\* calculate_k_factor's constants
a == Dec(27783322, -8)      \* 0.277833218
b == Dec(10560583, -7)      \* 1.056058295
c == Dec(60832024, -8)      \* 0.608320238
d == Dec(50250653, -8)      \* 0.502506534

\* The formula with its two asymptotes exchanged: a + (d - a) / (1 + (r_s / c) ** b)
calculate_k_factor_falling(ratio) ==
  FAdd(a, FDiv(FSub(d, a), FAdd(Dec(1, 0), FPow(FDiv(ratio, c), b))))

\* The formula with the sign of its numerator lost: d + (d - a) / (1 + (r_s / c) ** b)
calculate_k_factor_above(ratio) ==
  FAdd(d, FDiv(FSub(d, a), FAdd(Dec(1, 0), FPow(FDiv(ratio, c), b))))

\* The body of calculate_k_factor: d + (a - d) / (1 + (r_s / c) ** b)
calculate_k_factor(ratio) ==
  FAdd(d, FDiv(FSub(a, d), FAdd(Dec(1, 0), FPow(FDiv(ratio, c), b))))

\* np.radians
radians(deg) == FMul(deg, FDiv(Dec(Pi, 1 - Digits), Dec(180, 0)))

calculate_bend_allowance(k, bend_angle_deg, inner_radius, thickness) ==
  FMul(radians(bend_angle_deg), FAdd(inner_radius, FMul(k, thickness)))

\* outside_setback = np.tan(bend_angle_rad / 2) * (inner_radius + thickness)
outside_setback(inner_radius, thickness, bend_angle_deg) ==
  FMul(FTan(FDiv(radians(bend_angle_deg), Dec(2, 0))), FAdd(inner_radius, thickness))

calculate_bend_deduction(allowance, inner_radius, thickness, bend_angle_deg) ==
  FSub(FMul(Dec(2, 0), outside_setback(inner_radius, thickness, bend_angle_deg)),
       allowance)

\* The table with the k of r/s = 0.6 mistyped as 0.37, the k of r/s = 0.4.
TableDataPlateau ==
  [rs |-> << Dec(2, -1), Dec(4, -1), Dec(6, -1), Dec(8, -1), Dec(10, -1),
             Dec(15, -1), Dec(20, -1), Dec(25, -1), Dec(30, -1), Dec(40, -1),
             Dec(50, -1), Dec(70, -1), Dec(100, -1), Dec(150, -1), Dec(250, -1) >>,
   k  |-> << Dec(33, -2), Dec(37, -2), Dec(37, -2), Dec(405, -3), Dec(42, -2),
             Dec(44, -2), Dec(455, -3), Dec(46, -2), Dec(47, -2), Dec(475, -3),
             Dec(48, -2), Dec(485, -3), Dec(49, -2), Dec(495, -3), Dec(5, -1) >>]

\* table_data as the script defines it: the 'r/s' and the 'k' column.
TableData ==
  [rs |-> << Dec(2, -1), Dec(4, -1), Dec(6, -1), Dec(8, -1), Dec(10, -1),
             Dec(15, -1), Dec(20, -1), Dec(25, -1), Dec(30, -1), Dec(40, -1),
             Dec(50, -1), Dec(70, -1), Dec(100, -1), Dec(150, -1), Dec(250, -1) >>,
   k  |-> << Dec(33, -2), Dec(37, -2), Dec(385, -3), Dec(405, -3), Dec(42, -2),
             Dec(44, -2), Dec(455, -3), Dec(46, -2), Dec(47, -2), Dec(475, -3),
             Dec(48, -2), Dec(485, -3), Dec(49, -2), Dec(495, -3), Dec(5, -1) >>]

sample_r_s ==
  << Dec(5, -1), Dec(10, -1), Dec(15, -1), Dec(20, -1), Dec(30, -1), Dec(40, -1),
     Dec(50, -1), Dec(75, -1), Dec(100, -1), Dec(150, -1), Dec(200, -1), Dec(250, -1) >>


(***************************************************************************)
(* @st.cache_data: a call returns the stored value of its argument, or     *)
(* runs the body and stores the result.  <<value, cache afterwards>>       *)
(***************************************************************************)
\* A cache that keeps the value as it is displayed, to 4 decimals.
StoreDisplayed(entries, ratio, value) == <<value, entries @@ (ratio :> Fmt(value, 4))>>

Store(entries, ratio, value) == <<value, entries @@ (ratio :> value)>>

CachedCall(entries, ratio) ==
  IF ratio \in DOMAIN entries
    THEN <<entries[ratio], entries>>
    ELSE Store(entries, ratio, calculate_k_factor(ratio))

\* sample_k = [calculate_k_factor(rs) for rs in sample_r_s]: the cache after
\* the calls for the ratios `rest`.
RECURSIVE SampleCalls(_, _)
SampleCalls(entries, rest) ==
  IF rest = <<>> THEN entries
  ELSE SampleCalls(CachedCall(entries, Head(rest))[2], Tail(rest))

(***************************************************************************)
(* The script, top to bottom                                               *)
(***************************************************************************)
\* `if s >= 0:` for `if s > 0:`
ThicknessAcceptedZero(thickness) == FLe(Zero, thickness)

\* `if s > 0:`
ThicknessAccepted(thickness) == FLt(Zero, thickness)

\* Lines 154-157: st.error, k_factor = None, r_s = None.
Rejected(entries) ==
  [error |-> TRUE, exception |-> "none", r_s |-> None, k_factor |-> None,
   metrics |-> None, bend_allowance |-> None, bend_deduction |-> None,
   total |-> None, entries |-> entries]

\* Line 128 with a zero divisor: Python's float division raises
\* ZeroDivisionError and nothing after the raise runs.
Raised(entries) ==
  [error |-> FALSE, exception |-> "ZeroDivisionError", r_s |-> None,
   k_factor |-> None, metrics |-> None, bend_allowance |-> None,
   bend_deduction |-> None, total |-> None, entries |-> entries]

\* Lines 131-152: the metrics shown and, for several bends, the total.  The
\* bend values are None when the advanced block did not run.
Shown(in, r_s, k_factor, bend_allowance, bend_deduction, entries) ==
  [error |-> FALSE, exception |-> "none", r_s |-> r_s, k_factor |-> k_factor,
   metrics |->
     Some([ratio |-> Fmt(r_s, 3), k |-> Fmt(k_factor, 4),
           allowance |-> IF in.show_advanced THEN Fmt(bend_allowance, 3) ELSE None,
           deduction |-> IF in.show_advanced THEN Fmt(bend_deduction, 3) ELSE None]),
   bend_allowance |-> bend_allowance,
   bend_deduction |-> bend_deduction,
   total |->
     IF in.show_advanced /\ in.multiple_bends
       THEN Some([n |-> in.num_bends,
                  allowance |-> Fmt(FMul(bend_allowance, Dec(in.num_bends, 0)), 3)])
       ELSE None,
   entries |-> entries]

\* Lines 141-143, under `if show_advanced:`.
WithAllowance(in, r_s, call, bend_allowance) ==
  Shown(in, r_s, call[1], bend_allowance,
        IF in.show_advanced
          THEN calculate_bend_deduction(bend_allowance, in.r, in.s, in.bend_angle)
          ELSE None,
        call[2])

\* Lines 137-140, under `if show_advanced:`.
WithKFactor(in, r_s, call) ==
  WithAllowance(in, r_s, call,
                IF in.show_advanced
                  THEN calculate_bend_allowance(call[1], in.bend_angle, in.r, in.s)
                  ELSE None)

\* Line 129: k_factor = calculate_k_factor(r_s)
WithRatio(in, r_s, entries) == WithKFactor(in, r_s, CachedCall(entries, r_s))

\* Lines 126-157.
Calculation(in, entries) ==
  IF ~ThicknessAccepted(in.s) THEN Rejected(entries)
  ELSE IF in.s[1] = 0 THEN Raised(entries)
  ELSE WithRatio(in, FDiv(in.r, in.s), entries)

\* The "Your Input" row of the analysis table.
UserRow(r_s, k_factor) ==
  [kind |-> "user", rs |-> Fmt(r_s, 2), k |-> Fmt(k_factor, 4),
   diff |-> Fmt(FSub(Dec(5, -1), k_factor), 4), behavior |-> "Your Input"]

\* A regular row of the analysis table.
SampleRow(rs_val, k) ==
  [kind |-> "sample", rs |-> Fmt(rs_val, 1), k |-> Fmt(k, 4),
   diff |-> Fmt(FSub(Dec(5, -1), k), 4),
   behavior |-> IF FLt(k, Dec(35, -2)) THEN "Soft"
                ELSE IF FLt(k, Dec(45, -2)) THEN "Medium" ELSE "Hard"]

\* `r_s < rs_val` for `r_s <= rs_val`
InsertHereStrict(user_added, r_s, rs_val) ==
  ~user_added /\ r_s # None /\ FLt(r_s, rs_val)

\* `if not user_added and r_s is not None and r_s <= rs_val:`
InsertHere(user_added, r_s, rs_val) ==
  ~user_added /\ r_s # None /\ FLe(r_s, rs_val)

\* Lines 186-224: the rows for the sample ratios `rest`, and the user's row
\* after the last one when it was not added before.
RECURSIVE AnalysisRows(_, _, _, _, _)
AnalysisRows(rest, user_added, r_s, k_factor, entries) ==
  IF rest = <<>>
    THEN IF ~user_added /\ r_s # None THEN <<UserRow(r_s, k_factor)>> ELSE <<>>
  ELSE (IF InsertHere(user_added, r_s, Head(rest))
          THEN <<UserRow(r_s, k_factor)>> ELSE <<>>)
       \o <<SampleRow(Head(rest), entries[Head(rest)])>>
       \o AnalysisRows(Tail(rest), user_added \/ InsertHere(user_added, r_s, Head(rest)),
                       r_s, k_factor, entries)

\* Lines 263-294.  Formatting None with a float format raises TypeError.
Report(in, calc) ==
  IF ~in.generate_report THEN [exception |-> "none", report |-> None]
  ELSE IF calc.r_s = None \/ calc.k_factor = None
    THEN [exception |-> "TypeError", report |-> None]
  ELSE [exception |-> "none",
        report |->
          Some([r |-> Fmt(in.r, 3), s |-> Fmt(in.s, 3), r_s |-> Fmt(calc.r_s, 3),
                k_factor |-> Fmt(calc.k_factor, 4),
                bend |-> IF in.show_advanced /\ calc.bend_allowance # None
                           THEN Some([angle |-> Fmt(in.bend_angle, 1),
                                      allowance |-> Fmt(calc.bend_allowance, 3),
                                      deduction |-> Fmt(calc.bend_deduction, 3)])
                           ELSE None])]

\* The scan with `diff <= min_diff` for `diff < min_diff`.
RECURSIVE ClosestScanLast(_, _, _, _, _)
ClosestScanLast(rs, ratio, i, closest_idx, min_diff) ==
  IF i > Len(rs) THEN closest_idx
  ELSE IF FLe(FAbs(FSub(rs[i], ratio)), min_diff)
    THEN ClosestScanLast(rs, ratio, i + 1, i, FAbs(FSub(rs[i], ratio)))
    ELSE ClosestScanLast(rs, ratio, i + 1, closest_idx, min_diff)

\* Lines 315-321: the index (from 1) of the closest r/s of the table, scanning
\* from entry i on with the best entry so far.
RECURSIVE ClosestScan(_, _, _, _, _)
ClosestScan(rs, ratio, i, closest_idx, min_diff) ==
  IF i > Len(rs) THEN closest_idx
  ELSE IF FLt(FAbs(FSub(rs[i], ratio)), min_diff)
    THEN ClosestScan(rs, ratio, i + 1, i, FAbs(FSub(rs[i], ratio)))
    ELSE ClosestScan(rs, ratio, i + 1, closest_idx, min_diff)

\* closest_idx = 0; min_diff = abs(table_data['r/s'][0] - r_s)
closest_index(table, ratio) ==
  ClosestScan(table.rs, ratio, 1, 1, FAbs(FSub(table.rs[1], ratio)))

\* Lines 323-328: the comparison shown for the closest entry.
ComparisonAt(table, calc, closest_idx) ==
  Some([closest_r_s |-> table.rs[closest_idx],
        closest_k   |-> table.k[closest_idx],
        r_s         |-> Fmt(calc.r_s, 3),
        k_factor    |-> Fmt(calc.k_factor, 4),
        difference  |-> Fmt(FAbs(FSub(calc.k_factor, table.k[closest_idx])), 4)])

\* Lines 312-328, under `if r_s is not None:`.
Comparison(table, calc) ==
  IF calc.r_s = None THEN None
  ELSE ComparisonAt(table, calc, closest_index(table, calc.r_s))

\* A run that an exception ended during the calculation.
Aborted(calc) ==
  [cache |-> calc.entries,
   run |-> [error |-> calc.error, exception |-> calc.exception,
            r_s |-> None, k_factor |-> None, metrics |-> None,
            bend_allowance |-> None, bend_deduction |-> None,
            total |-> None, rows |-> <<>>, report |-> None, comparison |-> None]]

\* Lines 166-328: sample_k, the analysis table, the report, the comparison.
\* An exception in the report ends the run before the comparison.
Completed(table, calc, sampled, rep) ==
  [cache |-> sampled,
   run |-> [error |-> calc.error, exception |-> rep.exception,
            r_s |-> calc.r_s, k_factor |-> calc.k_factor,
            metrics |-> calc.metrics,
            bend_allowance |-> calc.bend_allowance,
            bend_deduction |-> calc.bend_deduction,
            total |-> calc.total,
            rows |-> AnalysisRows(sample_r_s, FALSE, calc.r_s, calc.k_factor, sampled),
            report |-> rep.report,
            comparison |-> IF rep.exception = "none"
                             THEN Comparison(table, calc) ELSE None]]

AfterCalculation(in, table, calc) ==
  IF calc.exception # "none" THEN Aborted(calc)
  ELSE Completed(table, calc, SampleCalls(calc.entries, sample_r_s), Report(in, calc))

\* One run of the script on the widgets' values `in`: the cache afterwards
\* and everything the run computed and displayed.
Script(in, entries, table) == AfterCalculation(in, table, Calculation(in, entries))

(***************************************************************************)
(* The widgets.  A number_input commits an entry only when it lies within  *)
(* the widget's min_value and max_value; every committed change re-runs    *)
(* the script.  A widget that a run does not render loses its value and    *)
(* shows its default when it is rendered again.                            *)
(***************************************************************************)
\* The largest whole bend count a user types.
MaxBendsTyped == 3

RadiusEntries == {Dec(-5, -1), Zero, Dec(1, 0), Dec(30, 0)}

ThicknessEntries == {Dec(-1, 0), Zero, Dec(1, 0), Dec(4, 0)}

AngleEntries == {Zero, Dec(90, 0), Dec(180, 0), Dec(185, 0)}

BendsEntries == {Dec(n, 0) : n \in 0..MaxBendsTyped} \cup {Dec(25, -1), Dec(11, 0)}

\* The widgets' default values (the `value=` arguments).
Defaults ==
  [r |-> Dec(1, 0), s |-> Dec(1, 0), show_advanced |-> FALSE,
   bend_angle |-> Dec(90, 0), multiple_bends |-> FALSE, num_bends |-> 1,
   generate_report |-> FALSE]

Inputs ==
  [r |-> r, s |-> s, show_advanced |-> show_advanced, bend_angle |-> bend_angle,
   multiple_bends |-> multiple_bends, num_bends |-> num_bends,
   generate_report |-> FALSE]

\* The script runs on the widgets' values `in`.
Display(in, out) ==
  /\ r' = in.r
  /\ s' = in.s
  /\ show_advanced' = in.show_advanced
  /\ bend_angle' = in.bend_angle
  /\ multiple_bends' = in.multiple_bends
  /\ num_bends' = in.num_bends
  /\ generate_report' = in.generate_report
  /\ cache' = out.cache
  /\ run' = out.run
  /\ UNCHANGED << table_data, functions >>

Rerun(in) == Display(in, Script(in, cache, table_data))

\* number_input("Inner Bend Radius (r)", min_value=0.0)
RadiusInRange(v) == FLe(Zero, v)

\* number_input("Sheet Thickness (s)", min_value=0.01)
ThicknessInRange(v) == FLe(Dec(1, -2), v)

\* number_input("Bend Angle (degrees)", min_value=0.1, max_value=180.0)
AngleInRange(v) == FLe(Dec(1, -1), v) /\ FLe(v, Dec(180, 0))

\* The widget without its min_value.
BendsInRangeNoMin(v, n) == v = Dec(n, 0) /\ n <= 10

\* number_input("Number of Bends", min_value=1, max_value=10, step=1): an
\* integer widget.
BendsInRange(v, n) == v = Dec(n, 0) /\ 1 <= n /\ n <= 10

SetRadius(v) ==
  /\ RadiusInRange(v)
  /\ v # r
  /\ Rerun([Inputs EXCEPT !.r = v])

SetThickness(v) ==
  /\ ThicknessInRange(v)
  /\ v # s
  /\ Rerun([Inputs EXCEPT !.s = v])

\* The script run on a thickness entry whatever its value: what the
\* branch `if s > 0: ... else:` of the script itself decides.
SetThicknessUnchecked(v) ==
  /\ v # s
  /\ Rerun([Inputs EXCEPT !.s = v])

ToggleAdvanced ==
  Rerun([Inputs EXCEPT !.show_advanced = ~show_advanced,
                       !.bend_angle = Defaults.bend_angle,
                       !.multiple_bends = Defaults.multiple_bends,
                       !.num_bends = Defaults.num_bends])

SetBendAngle(v) ==
  /\ show_advanced
  /\ AngleInRange(v)
  /\ v # bend_angle
  /\ Rerun([Inputs EXCEPT !.bend_angle = v])

ToggleMultiple ==
  /\ show_advanced
  /\ Rerun([Inputs EXCEPT !.multiple_bends = ~multiple_bends,
                          !.num_bends = Defaults.num_bends])

SetNumBends(v) ==
  /\ show_advanced
  /\ multiple_bends
  /\ \E n \in 0..11 :
       /\ BendsInRange(v, n)
       /\ n # num_bends
       /\ Rerun([Inputs EXCEPT !.num_bends = n])

\* st.button("Generate Report") is True in the run its click starts.
ClickReport == Rerun([Inputs EXCEPT !.generate_report = TRUE])

(***************************************************************************)
(* The functions on their own, at ratios the widgets' entries do not reach *)
(***************************************************************************)
Ratios ==
  { Zero, Dec(1, -1), Dec(2, -1), Dec(3, -1), Dec(5, -1), Dec(1, 0), Dec(125, -2),
    Dec(15, -1), Dec(5, 0), Dec(125, -1), Dec(25, 0), Dec(30, 0), Dec(100, 0),
    Dec(1, 4), Dec(1, 6), Dec(1, 15) }

EvaluateK ==
  /\ k_x = None
  /\ k_x' = calculate_k_factor(arg_x)
  /\ k_y' = calculate_k_factor(arg_y)
  /\ UNCHANGED << widgets, generate_report, cache, table_data, run, arg_x, arg_y, closest >>

EvaluateClosest ==
  /\ closest = None
  /\ closest' = Some(closest_index(table_data, arg_x))
  /\ UNCHANGED << widgets, generate_report, cache, table_data, run, arg_x, arg_y, k_x, k_y >>

(***************************************************************************)
(* Specifications                                                          *)
(***************************************************************************)
\* The state after the first run, on the widgets' defaults.
FirstRun(out) ==
  /\ r = Defaults.r
  /\ s = Defaults.s
  /\ show_advanced = Defaults.show_advanced
  /\ bend_angle = Defaults.bend_angle
  /\ multiple_bends = Defaults.multiple_bends
  /\ num_bends = Defaults.num_bends
  /\ generate_report = FALSE
  /\ table_data = TableData
  /\ cache = out.cache
  /\ run = out.run

InitApp == FirstRun(Script(Defaults, <<>>, TableData))

Init ==
  /\ InitApp
  /\ arg_x = Zero /\ arg_y = Zero /\ k_x = None /\ k_y = None /\ closest = None

NextBendWidgets ==
  \/ \E v \in RadiusEntries : SetRadius(v)
  \/ ToggleAdvanced
  \/ \E v \in AngleEntries : SetBendAngle(v)
  \/ ToggleMultiple
  \/ \E v \in BendsEntries : SetNumBends(v)
  \/ ClickReport

\* The application as used through its widgets.
Next ==
  \/ NextBendWidgets
  \/ \E v \in ThicknessEntries : SetThickness(v)

Spec == Init /\ [][Next]_vars

\* The script run on any thickness entry.
NextAnyThickness ==
  \/ NextBendWidgets
  \/ \E v \in ThicknessEntries : SetThicknessUnchecked(v)

SpecAnyThickness == Init /\ [][NextAnyThickness]_vars

\* calculate_k_factor and the closest-entry scan applied to every ratio of Ratios.
InitFunctions ==
  /\ InitApp
  /\ arg_x \in Ratios /\ arg_y \in Ratios
  /\ k_x = None /\ k_y = None /\ closest = None

NextFunctions == EvaluateK \/ EvaluateClosest

SpecFunctions == InitFunctions /\ [][NextFunctions]_vars

(***************************************************************************)
(* Properties                                                              *)
(***************************************************************************)
\* C1: a thickness s <= 0 is rejected before r / s is formed: the run shows
\* the error, raises no ZeroDivisionError, leaves the ratio and the K-factor
\* absent and shows no number derived from them; for s > 0 the ratio r / s
\* and its K-factor are both computed.
C1_ThicknessGuard ==
  /\ ~FLt(Zero, s) =>
       /\ run.error
       /\ run.exception # "ZeroDivisionError"
       /\ run.r_s = None /\ run.k_factor = None
       /\ run.metrics = None /\ run.comparison = None /\ run.report = None
       /\ \A i \in DOMAIN run.rows : run.rows[i].kind # "user"
  /\ FLt(Zero, s) =>
       /\ ~run.error
       /\ run.r_s = FDiv(r, s)
       /\ run.k_factor = calculate_k_factor(FDiv(r, s))

\* A run on the thickness 0.0 that showed the error.
C1_ZeroRejected == s = Zero /\ run.error /\ run.r_s = None /\ run.exception = "none"

\* C2: the scan returns the first entry among those whose r/s is closest to
\* the ratio; for a ratio at or below the lowest r/s it is the first entry,
\* (0.2, 0.33).
C2_ClosestIsFirstMinimiser ==
  closest # None =>
    LET rs == table_data.rs
        idx == closest[1]
        dist(j) == FAbs(FSub(rs[j], arg_x))
    IN  /\ idx \in DOMAIN rs
        /\ \A j \in DOMAIN rs : FLe(dist(idx), dist(j))
        /\ \A j \in 1..(idx - 1) : FLt(dist(idx), dist(j))
        /\ FLe(arg_x, rs[1]) =>
             /\ idx = 1
             /\ rs[idx] = Dec(2, -1)
             /\ table_data.k[idx] = Dec(33, -2)

\* The ratio 0.5 is equally far from the entries 0.4 and 0.6; the scan took 0.4.
C2_TieTakesFirst ==
  /\ arg_x = Dec(5, -1)
  /\ closest = Some(2)
  /\ FAbs(FSub(table_data.rs[2], arg_x)) = FAbs(FSub(table_data.rs[3], arg_x))

C5_ReferenceTable ==
  /\ table_data = TableData
  /\ Len(table_data.rs) = 15
  /\ Len(table_data.k) = 15
  /\ \A i \in 1..14 :
       /\ FLt(table_data.rs[i], table_data.rs[i + 1])
       /\ FLt(table_data.k[i], table_data.k[i + 1])
  /\ table_data.rs[1] = Dec(2, -1)
  /\ table_data.rs[15] = Dec(25, 0)

\* A run that scanned the table for the closest entry and wrote the report.
C5_AfterScanAndReport ==
  /\ generate_report
  /\ run.report # None
  /\ run.comparison # None
  /\ run.comparison[1].closest_r_s \in {table_data.rs[i] : i \in 1..15}

\* C6: calculate_bend_deduction is invoked only with an angle inside (0, 180),
\* never at 180 degrees, where tan(angle / 2) diverges.
C6_AngleBelow180 ==
  run.bend_deduction # None =>
    (FLt(Zero, bend_angle) /\ FLt(bend_angle, Dec(180, 0)))

\* C7: the number of bends is an integer from 1 to 10; the total is shown
\* exactly when the bend calculations and the multiple bends are enabled and
\* s > 0, and it is the bend allowance times the number of bends (the
\* allowance itself for one bend, the allowance added to itself for two;
\* 2.0 times 3 is 6.0), shown to 3 decimals.
C7_TotalAllowance ==
  /\ num_bends \in 1..10
  /\ (run.total # None) <=> (show_advanced /\ multiple_bends /\ FLt(Zero, s))
  /\ run.total # None =>
       /\ run.total[1].n = num_bends
       /\ run.total[1].allowance = Fmt(FMul(run.bend_allowance, Dec(num_bends, 0)), 3)
       /\ num_bends = 1 => run.total[1].allowance = Fmt(run.bend_allowance, 3)
       /\ num_bends = 2 =>
            run.total[1].allowance = Fmt(FAdd(run.bend_allowance, run.bend_allowance), 3)
  /\ FMul(Dec(2, 0), Dec(3, 0)) = Dec(6, 0)

\* A total shown for three bends.
C7_ThreeBends ==
  /\ run.total # None
  /\ num_bends = 3
  /\ FLt(run.bend_allowance, run.total[1].allowance)

C10_UserRowPlacement ==
  LET rows == run.rows
      users == {i \in DOMAIN rows : rows[i].kind = "user"}
      samples == SelectSeq(rows, LAMBDA row : row.kind = "sample")
      below == {j \in DOMAIN sample_r_s : FLt(sample_r_s[j], run.r_s)}
  IN  /\ Len(samples) = 12
      /\ \A j \in 1..12 : samples[j].rs = Fmt(sample_r_s[j], 1)
      /\ run.r_s = None => users = {}
      /\ run.r_s # None =>
           /\ users = {Cardinality(below) + 1}
           /\ \A i \in users : rows[i].rs = Fmt(run.r_s, 2)

\* A ratio above 25.0: the user's row is the last of 13.
C10_UserRowLast ==
  /\ run.r_s # None
  /\ FLt(Dec(25, 0), run.r_s)
  /\ Len(run.rows) = 13
  /\ run.rows[13].kind = "user"

====
